---- MODULE Spec2Model ----
(***************************************************************************)
(* Execution engine of Aralez: src/execute.rs (run, run_internal, the file *)
(* helpers, get_bin and extract_resource) and src/config.rs                *)
(* (Config::get_tasks and Config::get_output_filename).                    *)
(*                                                                         *)
(* A path is a sequence of components, so Path::join is concatenation and  *)
(* Path::file_name is the last component.  An Option<T> is a sequence of   *)
(* length 0 (None) or 1 (Some(x)).  The file system is a function from     *)
(* paths to Option<bytes>.                                                 *)
(***************************************************************************)
EXTENDS Integers, Sequences, FiniteSets, TLC

VARIABLES
    fs,            \* file system: path -> None | Some(content)
    idx,           \* number of manifest entries the scheduler has completed
    pc,            \* position inside the entry being executed
    entry,         \* parameters of the call in progress
    name,          \* run's local `name` (rebound to the temp path, line 80)
    display_name,  \* run's local `display_name`
    child,         \* Option: the spawned process (program, args, image)
    output,        \* Option: result of wait_with_output
    log,           \* dprintln! messages of the entry in progress
    pre,           \* file system when the entry began
    created,       \* Option: path at which File::create of the temp file succeeded
    errs,          \* error kinds met while executing the entry
    failed,        \* number of completed entries that met an error
    live,          \* number of spawned child processes not known to have terminated
    mode,          \* "free", or "record" (first run) / "replay" (second run of the same manifest)
    trace,         \* entries and outcomes of the first run: recorded, then replayed
    snap,          \* Option: the file system at the end of the first run
    tasks,         \* Config.tasks: section name -> priority
    tasks_vec,     \* value returned by get_tasks
    tpc,           \* position of the get_tasks caller
    bin_name,      \* get_bin: the name to resolve
    os,            \* get_bin: the running executable's module: failing call, last OS error, embedded resources
    calls,         \* get_bin: Win32 resource calls made during the lookup
    bin_result,    \* Option: value returned by get_bin
    config_output_filename, \* Config.output_filename: the template
    hostname,      \* Option: host name, None when it cannot be read or is not UTF-8
    datetime,      \* the formatted local time
    expanded       \* Option: value returned by get_output_filename

vars == <<fs, idx, pc, entry, name, display_name, child, output, log, pre,
          created, errs, failed, live, mode, trace, snap, tasks, tasks_vec, tpc,
          bin_name, os, calls, bin_result, config_output_filename, hostname, datetime, expanded>>

runVars == <<fs, idx, pc, entry, name, display_name, child, output, log, pre,
             created, errs, failed, live, mode, trace, snap>>

taskVars == <<tasks, tasks_vec, tpc>>

recVars == <<mode, snap>>

binVars == <<bin_name, os, calls, bin_result>>

nameVars == <<config_output_filename, hostname, datetime, expanded>>

----------------------------------------------------------------------------
(* Bounds *)

NumEntries == 2

MaxLen == 1

MaxPriority == 2

MaxTpl == 5

----------------------------------------------------------------------------
(* Values *)

None == <<>>

Some(x) == <<x>>

IsSome(o) == Len(o) = 1

Unwrap(o) == o[1]

Byte == {1, 2}

ByteStrings == UNION {[1..k -> Byte] : k \in 0..MaxLen}

Payloads == {<<1, 2>>}

PriorContent == <<2, 2, 1>>

StderrStrings == {<<>>, <<2, 1>>}

ToolNames == {"pslist.exe", "handle.exe"}

StagingDirs == {<<"stage">>}

OutputFiles == {<<"out", "result.txt">>}

ArgLists == {<<>>, <<"-accepteula">>}

ExitCodes == {None, Some(0), Some(1)}

BuiltinNames == {"ProcInfo", "ProcDetailsInfo", "PortsInfo"}

CollectorNames == BuiltinNames \cup {"RegInfo"}

Join(dir, file) == dir \o <<file>>

FileName(path) == path[Len(path)]

StagedPaths == {Join(d, n) : d \in StagingDirs, n \in ToolNames}

Paths == StagedPaths \cup OutputFiles

Exists(f, p) == p \in DOMAIN f /\ IsSome(f[p])

UnwrapOr(o, d) == IF IsSome(o) THEN Unwrap(o) ELSE d

----------------------------------------------------------------------------
(* Log messages (the text of each dprintln!) *)

MsgContentNotFound == "Content of the external file not found"

MsgOutputPathNotFound == "The output path for the executable not found"

MsgSaveTempFailed == "Failed to save to temp file"

MsgStarting == "Starting execution"

MsgSpawnFailed == "Failed to spawn process"

MsgExecuteFailed == "Failed to execute"

MsgSaveOutputFailed == "Failed to save output to file"

MsgRemoveTemp == "Remove the temporary file"

MsgCleanupFailed == "Failed to clean up temp file"

MsgSaved == "The output has been saved to"

MsgCompleted == "Execution completed"

MsgInternalNotFound == "Internal tool not found"

MsgExitCode(c) == IF c = -1 THEN "Exit code: -1" ELSE IF c = 0 THEN "Exit code: 0" ELSE "Exit code: 1"

Logged(m) == \E i \in 1..Len(log) : log[i] = m

----------------------------------------------------------------------------
(* Entries *)

NoEntry == [exec_type |-> "None", name |-> "", args |-> <<>>, exe_bytes |-> None, output_path |-> None, output_file |-> <<>>]

RunEntries == [exec_type : {"External", "System"}, name : ToolNames, args : ArgLists, exe_bytes : {None} \cup {Some(b) : b \in Payloads}, output_path : {None} \cup {Some(d) : d \in StagingDirs}, output_file : OutputFiles]

InternalEntries == [exec_type : {"Internal"}, name : CollectorNames, args : {<<>>}, exe_bytes : {None}, output_path : {None}, output_file : OutputFiles]

----------------------------------------------------------------------------
(* File helpers of execute.rs.  `io` is the outcome the operating system    *)
(* gives the call; `n` is the number of bytes written before a failed write.*)
(* The message of line 221 is appended by the caller of cleanup_temp_file.  *)

save_to_temp_file(f, filename, exe_bytes, output_path, io, n) ==
    LET output_file_path == Join(output_path, filename)
    IN  CASE io = "create_err" -> [fs |-> f, ok |-> FALSE, path |-> output_file_path, created |-> FALSE]
          [] io = "write_err" -> [fs |-> [f EXCEPT ![output_file_path] = Some(SubSeq(exe_bytes, 1, n))], ok |-> FALSE, path |-> output_file_path, created |-> TRUE]
          [] OTHER -> [fs |-> [f EXCEPT ![output_file_path] = Some(exe_bytes)], ok |-> TRUE, path |-> output_file_path, created |-> TRUE]

\* the output file opened for appending instead of File::create
save_output_to_file_Appends(f, out, output_filename, io, n) ==
    CASE io = "create_err" -> [fs |-> f, ok |-> FALSE]
      [] io = "write_err" -> [fs |-> [f EXCEPT ![output_filename] = Some(UnwrapOr(f[output_filename], <<>>) \o SubSeq(out, 1, n))], ok |-> FALSE]
      [] io = "flush_err" -> [fs |-> [f EXCEPT ![output_filename] = Some(UnwrapOr(f[output_filename], <<>>) \o out)], ok |-> FALSE]
      [] OTHER -> [fs |-> [f EXCEPT ![output_filename] = Some(UnwrapOr(f[output_filename], <<>>) \o out)], ok |-> TRUE]

save_output_to_file(f, out, output_filename, io, n) ==
    CASE io = "create_err" -> [fs |-> f, ok |-> FALSE]
      [] io = "write_err" -> [fs |-> [f EXCEPT ![output_filename] = Some(SubSeq(out, 1, n))], ok |-> FALSE]
      [] io = "flush_err" -> [fs |-> [f EXCEPT ![output_filename] = Some(out)], ok |-> FALSE]
      [] OTHER -> [fs |-> [f EXCEPT ![output_filename] = Some(out)], ok |-> TRUE]

cleanup_temp_file(f, temp_exe_path, io) ==
    IF Exists(f, temp_exe_path)
    THEN IF io = "remove_err"
         THEN [fs |-> f, ok |-> FALSE]
         ELSE [fs |-> [f EXCEPT ![temp_exe_path] = None], ok |-> TRUE]
    ELSE [fs |-> f, ok |-> TRUE]

----------------------------------------------------------------------------
(* Builtin collectors (process::run, process_details::run,                  *)
(* network_info::run_network_info): each writes its findings to the output  *)
(* path without spawning a subprocess.                                      *)

collector_run(f, output_file_path, findings) == [f EXCEPT ![output_file_path] = Some(findings)]

----------------------------------------------------------------------------
(* The scheduler: one call per manifest entry, in sequence. *)

Append2(s, a, b) == Append(Append(s, a), b)

\* A second run of the same manifest in an unchanged environment meets, step by
\* step, the entries and the outcomes of the first run.
Allowed(c) == mode = "replay" => (trace # <<>> /\ Len(Head(trace)) = Len(c) /\ Head(trace) = c)

Step(c) == CASE mode = "record" -> Append(trace, c) [] mode = "replay" -> Tail(trace) [] OTHER -> trace

\* Entries of one run of the manifest.  The manifest that is run twice is one
\* entry shorter, so that its two runs together dispatch 2 * (NumEntries - 1) entries.
ManifestLen == IF mode = "free" THEN NumEntries ELSE NumEntries - 1

Rerun ==
    /\ pc = "idle"
    /\ idx = ManifestLen
    /\ mode = "record"
    /\ mode' = "replay"
    /\ snap' = Some(fs)
    /\ idx' = 0
    /\ failed' = 0
    /\ UNCHANGED <<fs, pc, entry, name, display_name, child, output, log, pre, created, errs, live, trace, taskVars, binVars, nameVars>>

Dispatch ==
    /\ pc = "idle"
    /\ idx < ManifestLen
    /\ \E e \in RunEntries \cup InternalEntries :
          /\ Allowed(<<e>>)
          /\ trace' = Step(<<e>>)
          /\ entry' = e
          /\ name' = <<e.name>>
          /\ pc' = IF e.exec_type = "Internal" THEN "run_internal" ELSE "run"
    /\ pre' = fs
    /\ display_name' = ""
    /\ log' = <<>>
    /\ child' = None
    /\ output' = None
    /\ created' = None
    /\ errs' = {}
    /\ UNCHANGED <<fs, idx, failed, live, recVars, taskVars, binVars, nameVars>>

Return ==
    /\ pc = "return"
    /\ UNCHANGED trace
    /\ idx' = idx + 1
    /\ pc' = "idle"
    /\ entry' = NoEntry
    /\ name' = <<>>
    /\ display_name' = ""
    /\ log' = <<>>
    /\ child' = None
    /\ output' = None
    /\ created' = None
    /\ errs' = {}
    /\ pre' = fs
    /\ failed' = IF errs = {} THEN failed ELSE failed + 1
    /\ UNCHANGED <<fs, live, recVars, taskVars, binVars, nameVars>>

----------------------------------------------------------------------------
(* run_internal, execute.rs lines 22-45 *)

\* the wildcard arm without its `return`
RunInternal_NoReturn ==
    /\ pc = "run_internal"
    /\ UNCHANGED trace
    /\ fs' = fs
    /\ log' = IF entry.name \in BuiltinNames
              THEN Append2(Append(log, MsgStarting), MsgSaved, MsgCompleted)
              ELSE Append2(Append2(log, MsgStarting, MsgInternalNotFound), MsgSaved, MsgCompleted)
    /\ errs' = IF entry.name \in BuiltinNames THEN errs ELSE errs \cup {"CollectorNotFound"}
    /\ pc' = "return"
    /\ UNCHANGED <<idx, entry, name, display_name, child, output, pre, created, failed, live, recVars, taskVars, binVars, nameVars>>

RunInternal ==
    /\ pc = "run_internal"
    /\ IF entry.name \in BuiltinNames
       THEN \E findings \in ByteStrings :
               /\ Allowed(<<findings>>)
               /\ trace' = Step(<<findings>>)
               /\ fs' = collector_run(fs, entry.output_file, findings)
               /\ log' = Append2(Append(log, MsgStarting), MsgSaved, MsgCompleted)
               /\ errs' = errs
       ELSE /\ trace' = trace
            /\ fs' = fs
            /\ log' = Append2(log, MsgStarting, MsgInternalNotFound)
            /\ errs' = errs \cup {"CollectorNotFound"}
    /\ pc' = "return"
    /\ UNCHANGED <<idx, entry, name, display_name, child, output, pre, created, failed, live, recVars, taskVars, binVars, nameVars>>

----------------------------------------------------------------------------
(* run, execute.rs lines 47-131 *)

\* an External entry without payload bytes is run like a System entry
RunResolve_NoBytesCheck ==
    /\ pc = "run"
    /\ UNCHANGED trace
    /\ display_name' = entry.name
    /\ IF entry.exec_type = "External" /\ IsSome(entry.exe_bytes)
       THEN IF ~IsSome(entry.output_path)
            THEN /\ log' = Append(log, MsgOutputPathNotFound)
                 /\ errs' = errs \cup {"StagingPathMissing"}
                 /\ pc' = "return"
            ELSE /\ log' = log
                 /\ errs' = errs
                 /\ pc' = "stage"
       ELSE /\ log' = log
            /\ errs' = errs
            /\ pc' = "spawn"
    /\ UNCHANGED <<fs, idx, entry, name, child, output, pre, created, failed, live, recVars, taskVars, binVars, nameVars>>

\* lines 55-71: display_name, and the two Option checks of an External entry
RunResolve ==
    /\ pc = "run"
    /\ UNCHANGED trace
    /\ display_name' = entry.name
    /\ IF entry.exec_type = "External"
       THEN IF ~IsSome(entry.exe_bytes)
            THEN /\ log' = Append(log, MsgContentNotFound)
                 /\ errs' = errs \cup {"PayloadNotFound"}
                 /\ pc' = "return"
            ELSE IF ~IsSome(entry.output_path)
                 THEN /\ log' = Append(log, MsgOutputPathNotFound)
                      /\ errs' = errs \cup {"StagingPathMissing"}
                      /\ pc' = "return"
                 ELSE /\ log' = log
                      /\ errs' = errs
                      /\ pc' = "stage"
       ELSE /\ log' = log
            /\ errs' = errs
            /\ pc' = "spawn"
    /\ UNCHANGED <<fs, idx, entry, name, child, output, pre, created, failed, live, recVars, taskVars, binVars, nameVars>>

\* `name` is not rebound to the temp path (line 80 missing)
RunStage_NameNotRebound ==
    /\ pc = "stage"
    /\ UNCHANGED trace
    /\ \E io \in {"ok", "create_err", "write_err"} :
       \E n \in IF io = "write_err" THEN 0..(Len(Unwrap(entry.exe_bytes)) - 1) ELSE {0} :
          LET r == save_to_temp_file(fs, FileName(name), Unwrap(entry.exe_bytes), Unwrap(entry.output_path), io, n)
          IN  /\ fs' = r.fs
              /\ created' = IF r.created THEN Some(r.path) ELSE None
              /\ log' = IF r.ok THEN log ELSE Append(log, MsgSaveTempFailed)
              /\ errs' = IF r.ok THEN errs ELSE errs \cup {"StagingWriteFailed"}
              /\ pc' = IF r.ok THEN "spawn" ELSE "return"
    /\ UNCHANGED <<idx, entry, name, display_name, child, output, pre, failed, live, recVars, taskVars, binVars, nameVars>>

\* lines 72-85: save_to_temp_file, then rebind name and display_name
RunStage ==
    /\ pc = "stage"
    /\ \E io \in {"ok", "create_err", "write_err"} :
       \E n \in IF io = "write_err" THEN 0..(Len(Unwrap(entry.exe_bytes)) - 1) ELSE {0} :
          LET r == save_to_temp_file(fs, FileName(name), Unwrap(entry.exe_bytes), Unwrap(entry.output_path), io, n)
          IN  /\ Allowed(<<io, n>>)
              /\ trace' = Step(<<io, n>>)
              /\ fs' = r.fs
              /\ created' = IF r.created THEN Some(r.path) ELSE None
              /\ IF r.ok
                 THEN /\ name' = r.path
                      /\ display_name' = FileName(r.path)
                      /\ log' = log
                      /\ errs' = errs
                      /\ pc' = "spawn"
                 ELSE /\ name' = name
                      /\ display_name' = display_name
                      /\ log' = Append(log, MsgSaveTempFailed)
                      /\ errs' = errs \cup {"StagingWriteFailed"}
                      /\ pc' = "return"
    /\ UNCHANGED <<idx, entry, child, output, pre, failed, live, recVars, taskVars, binVars, nameVars>>

\* spawn().unwrap(): a failed spawn panics instead of returning
RunSpawn_Panics ==
    /\ pc = "spawn"
    /\ UNCHANGED trace
    /\ \E spawned \in BOOLEAN :
          IF spawned
          THEN /\ child' = Some([program |-> name, args |-> entry.args, image |-> IF name \in DOMAIN fs THEN fs[name] ELSE None])
               /\ live' = live + 1
               /\ log' = Append(log, MsgStarting)
               /\ errs' = errs
               /\ pc' = "wait"
          ELSE /\ child' = child
               /\ live' = live
               /\ log' = log
               /\ errs' = errs \cup {"SpawnFailed"}
               /\ pc' = "panicked"
    /\ UNCHANGED <<fs, idx, entry, name, display_name, output, pre, created, failed, recVars, taskVars, binVars, nameVars>>

\* lines 87-102: Command::new(&name).args(args)...spawn()
RunSpawn ==
    /\ pc = "spawn"
    /\ \E spawned \in BOOLEAN :
          /\ Allowed(<<spawned>>)
          /\ trace' = Step(<<spawned>>)
          /\ IF spawned
             THEN /\ child' = Some([program |-> name, args |-> entry.args, image |-> IF name \in DOMAIN fs THEN fs[name] ELSE None])
                  /\ live' = live + 1
                  /\ log' = Append(log, MsgStarting)
                  /\ errs' = errs
                  /\ pc' = "wait"
             ELSE /\ child' = child
                  /\ live' = live
                  /\ log' = Append(log, MsgSpawnFailed)
                  /\ errs' = errs \cup {"SpawnFailed"}
                  /\ pc' = "return"
    /\ UNCHANGED <<fs, idx, entry, name, display_name, output, pre, created, failed, recVars, taskVars, binVars, nameVars>>

\* a child that does not exit with code 0 is treated as a failed execution
RunWait_ExitCodeIsError ==
    /\ pc = "wait"
    /\ UNCHANGED trace
    /\ \E waited \in BOOLEAN :
          IF waited
          THEN \E code \in ExitCodes, out \in ByteStrings, err \in StderrStrings :
                  /\ output' = Some([code |-> code, stdout |-> out, stderr |-> err])
                  /\ live' = live - 1
                  /\ log' = Append(log, IF code = Some(0) THEN MsgExitCode(0) ELSE MsgExecuteFailed)
                  /\ errs' = IF code = Some(0) THEN errs ELSE errs \cup {"ProcessWaitFailed"}
                  /\ pc' = IF code = Some(0) THEN "save" ELSE "return"
          ELSE /\ output' = output
               /\ \E exited \in BOOLEAN : live' = IF exited THEN live - 1 ELSE live
               /\ log' = Append(log, MsgExecuteFailed)
               /\ errs' = errs \cup {"ProcessWaitFailed"}
               /\ pc' = "return"
    /\ UNCHANGED <<fs, idx, entry, name, display_name, child, pre, created, failed, recVars, taskVars, binVars, nameVars>>

\* lines 104-115: child.wait_with_output(), then the exit code is logged.
\* When it returns Err the Child is dropped, which neither kills nor reaps the
\* process: it may have exited or may still be running.
RunWait ==
    /\ pc = "wait"
    /\ \E waited \in BOOLEAN :
          IF waited
          THEN \E code \in ExitCodes, out \in ByteStrings, err \in StderrStrings :
                  /\ Allowed(<<code, out, err>>)
                  /\ trace' = Step(<<code, out, err>>)
                  /\ output' = Some([code |-> code, stdout |-> out, stderr |-> err])
                  /\ live' = live - 1
                  /\ log' = Append(log, MsgExitCode(UnwrapOr(code, -1)))
                  /\ errs' = errs
                  /\ pc' = "save"
          ELSE \E exited \in BOOLEAN :
                  /\ Allowed(<<exited>>)
                  /\ trace' = Step(<<exited>>)
                  /\ output' = output
                  /\ live' = IF exited THEN live - 1 ELSE live
                  /\ log' = Append(log, MsgExecuteFailed)
                  /\ errs' = errs \cup {"ProcessWaitFailed"}
                  /\ pc' = "return"
    /\ UNCHANGED <<fs, idx, entry, name, display_name, child, pre, created, failed, recVars, taskVars, binVars, nameVars>>

\* lines 117-120: save_output_to_file(&output.stdout, output_file)
RunSave ==
    /\ pc = "save"
    /\ \E io \in {"ok", "create_err", "write_err", "flush_err"} :
       \E n \in IF io = "write_err" THEN 0..(Len(Unwrap(output).stdout) - 1) ELSE {0} :
          LET r == save_output_to_file(fs, Unwrap(output).stdout, entry.output_file, io, n)
          IN  /\ Allowed(<<io, n>>)
              /\ trace' = Step(<<io, n>>)
              /\ fs' = r.fs
              /\ log' = IF r.ok THEN log ELSE Append(log, MsgSaveOutputFailed)
              /\ errs' = IF r.ok THEN errs ELSE errs \cup {"OutputWriteFailed"}
    /\ pc' = "cleanup"
    /\ UNCHANGED <<idx, entry, name, display_name, child, output, pre, created, failed, live, recVars, taskVars, binVars, nameVars>>

\* cleanup_temp_file called whatever the exec_type
RunCleanup_Unconditional ==
    /\ pc = "cleanup"
    /\ UNCHANGED trace
    /\ \E io \in {"ok", "remove_err"} :
          LET r == cleanup_temp_file(fs, name, io)
          IN  /\ fs' = r.fs
              /\ log' = Append2(IF r.ok THEN Append(log, MsgRemoveTemp) ELSE Append2(log, MsgRemoveTemp, MsgCleanupFailed), MsgSaved, MsgCompleted)
              /\ errs' = IF r.ok THEN errs ELSE errs \cup {"CleanupFailed"}
    /\ pc' = "return"
    /\ UNCHANGED <<idx, entry, name, display_name, child, output, pre, created, failed, live, recVars, taskVars, binVars, nameVars>>

\* a failed deletion returns early, like the other error arms
RunCleanup_FailureReturns ==
    /\ pc = "cleanup"
    /\ UNCHANGED trace
    /\ IF entry.exec_type = "External"
       THEN \E io \in {"ok", "remove_err"} :
               LET r == cleanup_temp_file(fs, name, io)
               IN  /\ fs' = r.fs
                   /\ log' = IF r.ok THEN Append2(Append(log, MsgRemoveTemp), MsgSaved, MsgCompleted) ELSE Append2(log, MsgRemoveTemp, MsgCleanupFailed)
                   /\ errs' = IF r.ok THEN errs ELSE errs \cup {"CleanupFailed"}
       ELSE /\ fs' = fs
            /\ log' = Append2(log, MsgSaved, MsgCompleted)
            /\ errs' = errs
    /\ pc' = "return"
    /\ UNCHANGED <<idx, entry, name, display_name, child, output, pre, created, failed, live, recVars, taskVars, binVars, nameVars>>

\* lines 122-131: cleanup_temp_file for an External entry, then the final messages
RunCleanup ==
    /\ pc = "cleanup"
    /\ IF entry.exec_type = "External"
       THEN \E io \in {"ok", "remove_err"} :
               LET r == cleanup_temp_file(fs, name, io)
               IN  /\ Allowed(<<io>>)
                   /\ trace' = Step(<<io>>)
                   /\ fs' = r.fs
                   /\ log' = Append2(IF r.ok THEN Append(log, MsgRemoveTemp) ELSE Append2(log, MsgRemoveTemp, MsgCleanupFailed), MsgSaved, MsgCompleted)
                   /\ errs' = IF r.ok THEN errs ELSE errs \cup {"CleanupFailed"}
       ELSE /\ trace' = trace
            /\ fs' = fs
            /\ log' = Append2(log, MsgSaved, MsgCompleted)
            /\ errs' = errs
    /\ pc' = "return"
    /\ UNCHANGED <<idx, entry, name, display_name, child, output, pre, created, failed, live, recVars, taskVars, binVars, nameVars>>

----------------------------------------------------------------------------
(* Config::get_tasks, config.rs lines 225-233 *)

SectionNames == {"memory", "network", "process"}

Manifests == UNION {[S -> 0..MaxPriority] : S \in SUBSET SectionNames}

Priority(t) == t[2].priority

\* the place of x in an already sorted vector: after every element whose key is not greater
Insert(x, v) ==
    LET k == Cardinality({i \in 1..Len(v) : Priority(v[i]) <= Priority(x)})
    IN  SubSeq(v, 1, k) \o <<x>> \o SubSeq(v, k + 1, Len(v))

RECURSIVE sort_by_key(_)
sort_by_key(v) ==
    IF v = <<>> THEN <<>>
    ELSE Insert(v[Len(v)], sort_by_key(SubSeq(v, 1, Len(v) - 1)))

\* the orders in which HashMap::into_iter may yield the sections
IterationOrders(m) == {o \in [1..Cardinality(DOMAIN m) -> DOMAIN m] : \A i, j \in DOMAIN o : i # j => o[i] # o[j]}

Collect(m, o) == [i \in DOMAIN o |-> <<o[i], [priority |-> m[o[i]]]>>]

\* the sections as collected, without the sort
get_tasks_Unsorted(m, o) == Collect(m, o)

get_tasks(m, o) == sort_by_key(Collect(m, o))

GetTasks ==
    /\ tpc = "start"
    /\ \E o \in IterationOrders(tasks) : tasks_vec' = get_tasks(tasks, o)
    /\ tpc' = "done"
    /\ UNCHANGED <<tasks, runVars, binVars, nameVars>>

----------------------------------------------------------------------------
(* get_bin and extract_resource, execute.rs lines 133-199 *)

StaticTable == {"autorunsc.exe", "handle.exe", "tcpvcon.exe", "pslist.exe", "Listdlls.exe", "PsService.exe", "pipelist.exe", "winpmem_mini_x64_rc2.exe"}

\* A name with an interior NUL byte, which CString::new refuses.
NamesWithNul == {"tool<NUL>.exe"}

BinNames == StaticTable \cup {"custom.exe", "other.exe"} \cup NamesWithNul

\* include_bytes!("../tools/<name>"): the bytes compiled in for a name.
StaticBytes(n) == <<"tools", n>>

resource_type == 10

\* The resources embedded in the running executable, keyed by type and name.
ResourceKeys == {<<resource_type, "custom.exe">>, <<16, "custom.exe">>, <<resource_type, "handle.exe">>}

ResourceData(key) == <<"rsrc", key[1], key[2]>>

OsErrors == {5, 1814}

FailingCalls == {"none", "GetModuleHandleA", "LoadResource", "LockResource", "SizeofResource"}

Modules == [fail : FailingCalls, errno : OsErrors, resources : SUBSET ResourceKeys]

NoModule == [fail |-> "none", errno |-> 5, resources |-> {}]

extract_resource(resource_name, o) ==
    LET key == <<resource_type, resource_name>>
        last_os_error == [kind |-> "Os", code |-> o.errno]
        Failure(e, cs) == [ok |-> FALSE, bytes |-> <<>>, err |-> Some(e), calls |-> cs]
    IN  IF o.fail = "GetModuleHandleA"
        THEN Failure(last_os_error, <<"GetModuleHandleA">>)
        ELSE IF resource_name \in NamesWithNul
        THEN Failure([kind |-> "InvalidInput", code |-> 0], <<"GetModuleHandleA">>)
        ELSE IF key \notin o.resources
        THEN Failure(last_os_error, <<"GetModuleHandleA", "FindResourceA">>)
        ELSE IF o.fail = "LoadResource"
        THEN Failure(last_os_error, <<"GetModuleHandleA", "FindResourceA", "LoadResource">>)
        ELSE IF o.fail = "LockResource"
        THEN Failure(last_os_error, <<"GetModuleHandleA", "FindResourceA", "LoadResource", "LockResource">>)
        ELSE IF o.fail = "SizeofResource"
        THEN Failure(last_os_error, <<"GetModuleHandleA", "FindResourceA", "LoadResource", "LockResource", "SizeofResource">>)
        ELSE [ok |-> TRUE, bytes |-> ResourceData(key), err |-> None,
              calls |-> <<"GetModuleHandleA", "FindResourceA", "LoadResource", "LockResource", "SizeofResource">>]

\* anyhow!(format!("[ERROR] {} not found", name)): a message, with no source error.
NotFound(n) == [ok |-> FALSE, bytes |-> <<>>, msg |-> <<"[ERROR] ", n, " not found">>, source |-> None]

OkBytes(b) == [ok |-> TRUE, bytes |-> b, msg |-> <<>>, source |-> None]

get_bin_ResourceFirst(n, o) ==
    LET r == extract_resource(n, o)
    IN  IF r.ok THEN [result |-> OkBytes(r.bytes), calls |-> r.calls]
        ELSE IF n \in StaticTable THEN [result |-> OkBytes(StaticBytes(n)), calls |-> r.calls]
        ELSE [result |-> NotFound(n), calls |-> r.calls]

get_bin(n, o) ==
    IF n \in StaticTable
    THEN [result |-> OkBytes(StaticBytes(n)), calls |-> <<>>]
    ELSE LET r == extract_resource(n, o)
         IN  IF r.ok THEN [result |-> OkBytes(r.bytes), calls |-> r.calls]
             ELSE [result |-> NotFound(n), calls |-> r.calls]

GetBin ==
    /\ bin_result = None
    /\ bin_name \in BinNames
    /\ LET r == get_bin(bin_name, os)
       IN  /\ bin_result' = Some(r.result)
           /\ calls' = r.calls
    /\ UNCHANGED <<bin_name, os, runVars, taskVars, nameVars>>

----------------------------------------------------------------------------
(* Config::get_output_filename, config.rs lines 203-223 *)

\* Strings are sequences of pieces; a token is "{{", its key and "}}".
Pieces == {"{{", "}}", "hostname", "datetime", "x"}

Templates == UNION {[1..n -> Pieces] : n \in 0..MaxTpl}

HostNames == {<<"pc">>, <<"datetime">>}

\* Local::now().format("%Y-%m-%d_%H-%M-%S")
Timestamps == {<<"2026-11-01_09-30-00">>}

Token(key) == <<"{{", key, "}}">>

\* str::replace: every non-overlapping match, left to right; the replacement is not rescanned.
RECURSIVE replace(_, _, _)
replace(str, from, to) ==
    IF Len(str) < Len(from) THEN str
    ELSE IF SubSeq(str, 1, Len(from)) = from
    THEN to \o replace(SubSeq(str, Len(from) + 1, Len(str)), from, to)
    ELSE <<Head(str)>> \o replace(Tail(str), from, to)

\* Iteration orders of the HashMap holding "hostname" and "datetime".
VarOrders == {<<"hostname", "datetime">>, <<"datetime", "hostname">>}

RECURSIVE ReplaceEach(_, _, _)
ReplaceEach(str, order, value) ==
    IF order = <<>> THEN str
    ELSE ReplaceEach(replace(str, Token(Head(order)), value[Head(order)]), Tail(order), value)

get_output_filename(template, host, dt, order) ==
    LET machine == IF IsSome(host) THEN Unwrap(host) ELSE <<"machine">>
        value == [key \in {"hostname", "datetime"} |-> IF key = "hostname" THEN machine ELSE dt]
    IN  ReplaceEach(template, order, value)

GetOutputFilename ==
    /\ expanded = None
    /\ datetime # <<>>
    /\ \E order \in VarOrders : expanded' = Some(get_output_filename(config_output_filename, hostname, datetime, order))
    /\ UNCHANGED <<config_output_filename, hostname, datetime, runVars, taskVars, binVars>>

----------------------------------------------------------------------------
(* Specifications *)

BinIdle ==
    /\ bin_name = ""
    /\ os = NoModule
    /\ calls = <<>>
    /\ bin_result = None

NameIdle ==
    /\ config_output_filename = <<>>
    /\ hostname = None
    /\ datetime = <<>>
    /\ expanded = None

TasksIdle ==
    /\ tasks = <<>>
    /\ tasks_vec = <<>>
    /\ tpc = "done"

InitRun ==
    /\ fs \in [Paths -> {None, Some(PriorContent)}]
    /\ \A p \in StagedPaths : fs[p] = None
    /\ pre = fs
    /\ idx = 0
    /\ pc = "idle"
    /\ entry = NoEntry
    /\ name = <<>>
    /\ display_name = ""
    /\ child = None
    /\ output = None
    /\ log = <<>>
    /\ created = None
    /\ errs = {}
    /\ failed = 0
    /\ live = 0
    /\ trace = <<>>
    /\ snap = None

Init ==
    /\ InitRun
    /\ mode = "free"
    /\ TasksIdle
    /\ BinIdle
    /\ NameIdle

Next ==
    \/ Dispatch
    \/ RunInternal
    \/ RunResolve
    \/ RunStage
    \/ RunSpawn
    \/ RunWait
    \/ RunSave
    \/ RunCleanup
    \/ Return

Spec == Init /\ [][Next]_vars

\* The thread of control keeps running, and each blocking call (spawn, wait,
\* file I/O) ends, with a result or with an error.
FairSpec == Spec /\ WF_vars(Next)

InitTasks ==
    /\ InitRun
    /\ mode = "free"
    /\ fs = [p \in Paths |-> None]
    /\ tasks \in Manifests
    /\ tasks_vec = <<>>
    /\ tpc = "start"
    /\ BinIdle
    /\ NameIdle

NextTasks == GetTasks

SpecTasks == InitTasks /\ [][NextTasks]_vars

InitTwice ==
    /\ InitRun
    /\ mode = "record"
    /\ TasksIdle
    /\ BinIdle
    /\ NameIdle

NextTwice == Next \/ Rerun

SpecTwice == InitTwice /\ [][NextTwice]_vars

InitBin ==
    /\ InitRun
    /\ mode = "free"
    /\ fs = [p \in Paths |-> None]
    /\ TasksIdle
    /\ NameIdle
    /\ bin_name \in BinNames
    /\ os \in Modules
    /\ calls = <<>>
    /\ bin_result = None

NextBin == GetBin

SpecBin == InitBin /\ [][NextBin]_vars

InitName ==
    /\ InitRun
    /\ mode = "free"
    /\ fs = [p \in Paths |-> None]
    /\ TasksIdle
    /\ BinIdle
    /\ config_output_filename \in Templates
    /\ hostname \in {None} \cup {Some(h) : h \in HostNames}
    /\ datetime \in Timestamps
    /\ expanded = None

NextName == GetOutputFilename

SpecName == InitName /\ [][NextName]_vars

----------------------------------------------------------------------------
(* Properties *)

IsExternal == entry.exec_type = "External"

IsSystem == entry.exec_type = "System"

IsInternal == entry.exec_type = "Internal"

Stdout == Unwrap(output).stdout

TempPath == Join(Unwrap(entry.output_path), entry.name)

\* the diagnostic that run logs for each error kind
Diag(k) ==
    CASE k = "PayloadNotFound" -> MsgContentNotFound
      [] k = "StagingPathMissing" -> MsgOutputPathNotFound
      [] k = "StagingWriteFailed" -> MsgSaveTempFailed
      [] k = "SpawnFailed" -> MsgSpawnFailed
      [] k = "ProcessWaitFailed" -> MsgExecuteFailed
      [] k = "OutputWriteFailed" -> MsgSaveOutputFailed
      [] k = "CleanupFailed" -> MsgCleanupFailed
      [] OTHER -> MsgInternalNotFound

\* C1: in run with exec_type External, once the payload has been staged, the
\* deletion of the staged file has been attempted when run returns, on every
\* exit path (spawn failure, wait failure, output-write failure, success).
C1_CleanupAttemptedOnEveryExit ==
    (pc = "return" /\ IsExternal /\ IsSome(created) /\ "StagingWriteFailed" \notin errs) => Logged(MsgRemoveTemp)

\* C2: whenever an entry is about to begin, and when the run has ended, no
\* staged payload file created by an earlier entry exists (the staging
\* directory starts empty, so every staged file was created by an entry).
C2_NoStagedFileOutlivesItsEntry ==
    pc = "idle" => \A p \in StagedPaths : ~Exists(fs, p)

\* C3: an External entry without payload bytes or without a staging directory
\* only reports an error: run has returned as soon as the checks are done, one
\* error message is logged, no file is created, changed or deleted, no
\* deletion is attempted and no process is spawned.
C3_UnresolvableExternalHasNoEffect ==
    (IsExternal /\ (~IsSome(entry.exe_bytes) \/ ~IsSome(entry.output_path)) /\ pc # "run") =>
        /\ pc = "return"
        /\ log = <<IF IsSome(entry.exe_bytes) THEN MsgOutputPathNotFound ELSE MsgContentNotFound>>
        /\ fs = pre
        /\ created = None
        /\ child = None
        /\ ~Logged(MsgRemoveTemp)

C3_Witness ==
    /\ pc = "return"
    /\ IsExternal
    /\ IsSome(entry.exe_bytes)
    /\ ~IsSome(entry.output_path)
    /\ log = <<MsgOutputPathNotFound>>
    /\ Exists(fs, entry.output_file)

\* C4: for an External or System entry whose process was spawned and awaited
\* and whose output write succeeded, output_file holds exactly the captured
\* standard output: no prior content and no standard-error bytes.
C4_OutputFileHoldsExactlyStdout ==
    (pc \in {"cleanup", "return"} /\ (IsExternal \/ IsSystem) /\ IsSome(output) /\ "OutputWriteFailed" \notin errs) =>
        fs[entry.output_file] = Some(Stdout)

C4_Witness ==
    /\ pc = "return"
    /\ IsExternal
    /\ IsSome(output)
    /\ "OutputWriteFailed" \notin errs
    /\ pre[entry.output_file] = Some(PriorContent)
    /\ Stdout # <<>>
    /\ Unwrap(output).stderr # <<>>
    /\ fs[entry.output_file] = Some(Stdout)

\* C5: for a System entry, at every point of run and on every path, no temp
\* file has been created, no deletion has been attempted, and every file of
\* the staging area is as it was when the entry began.
C5_SystemLeavesStagingAlone ==
    IsSystem =>
        /\ created = None
        /\ ~Logged(MsgRemoveTemp)
        /\ \A p \in StagedPaths : fs[p] = pre[p]

C5_Witness ==
    /\ pc = "return"
    /\ IsSystem
    /\ IsSome(entry.exe_bytes)
    /\ IsSome(entry.output_path)
    /\ Logged(MsgCompleted)
    /\ Exists(fs, TempPath)

\* C6: run_internal with a name that is no builtin collector logs that the
\* tool was not found and returns: no output file is created or changed, no
\* process is spawned, no success message is logged.
C6_UnknownCollectorNotFound ==
    (IsInternal /\ entry.name \notin BuiltinNames /\ pc # "run_internal") =>
        /\ pc = "return"
        /\ log = <<MsgStarting, MsgInternalNotFound>>
        /\ fs = pre
        /\ child = None
        /\ created = None

C6_Witness ==
    /\ pc = "return"
    /\ IsInternal
    /\ entry.name = "RegInfo"
    /\ Logged(MsgInternalNotFound)
    /\ ~Exists(fs, entry.output_file)

\* C7: get_tasks returns every section of the manifest exactly once, with its
\* priority, in non-decreasing priority order; so a section of priority 1
\* comes before a section of priority 2.
C7_TasksSortedByPriority ==
    tpc = "done" =>
        /\ Len(tasks_vec) = Cardinality(DOMAIN tasks)
        /\ \A s \in DOMAIN tasks : \E i \in 1..Len(tasks_vec) : tasks_vec[i] = <<s, [priority |-> tasks[s]]>>
        /\ \A i, j \in 1..Len(tasks_vec) : i < j => Priority(tasks_vec[i]) <= Priority(tasks_vec[j])
        /\ \A i, j \in 1..Len(tasks_vec) : (Priority(tasks_vec[i]) = 1 /\ Priority(tasks_vec[j]) = 2) => i < j

C7_Witness ==
    /\ tpc = "done"
    /\ DOMAIN tasks = {"network", "process"}
    /\ tasks["network"] = 2
    /\ tasks["process"] = 1
    /\ tasks_vec = <<<<"process", [priority |-> 1]>>, <<"network", [priority |-> 2]>>>>

\* C8: for an External entry with payload bytes and a staging directory, when
\* run is about to spawn, the file staging_dir/name holds exactly the payload
\* and nothing has been spawned yet; the process then spawned is the file at
\* that path, with the entry's args, and its image is the payload.
C8_StagedBeforeSpawn ==
    (IsExternal /\ pc \in {"spawn", "wait", "save", "cleanup"}) =>
        /\ created = Some(TempPath)
        /\ name = TempPath
        /\ fs[TempPath] = entry.exe_bytes
        /\ pc = "spawn" => child = None
        /\ pc # "spawn" => child = Some([program |-> TempPath, args |-> entry.args, image |-> entry.exe_bytes])

C8_Witness ==
    /\ pc = "wait"
    /\ IsExternal
    /\ entry.args = <<"-accepteula">>
    /\ Exists(pre, TempPath)
    /\ pre[TempPath] # entry.exe_bytes
    /\ Unwrap(child).image = entry.exe_bytes

\* C9 as stated: after a successful spawn and wait, whatever the exit code,
\* output_file holds the captured standard output and, for an External entry,
\* the staged temp file no longer exists.
C9_Original ==
    (pc = "return" /\ IsSome(output)) =>
        /\ fs[entry.output_file] = Some(Stdout)
        /\ IsExternal => ~Exists(fs, name)

\* C9 amended: after a successful spawn and wait, whatever the exit code
\* (absent, zero or not), the exit code is only logged (-1 when absent) and is
\* no error; the write of the captured standard output is attempted and,
\* unless that write fails, output_file holds it; for an External entry the
\* deletion of the staged file is attempted and, unless the deletion fails,
\* the file no longer exists; the entry is logged as completed.
C9_ExitCodeChangesNothing ==
    (pc = "return" /\ IsSome(output)) =>
        /\ Logged(MsgExitCode(UnwrapOr(Unwrap(output).code, -1)))
        /\ errs \subseteq {"OutputWriteFailed", "CleanupFailed"}
        /\ "OutputWriteFailed" \notin errs => fs[entry.output_file] = Some(Stdout)
        /\ "OutputWriteFailed" \in errs => Logged(MsgSaveOutputFailed)
        /\ IsExternal => Logged(MsgRemoveTemp)
        /\ (IsExternal /\ "CleanupFailed" \notin errs) => ~Exists(fs, name)
        /\ Logged(MsgCompleted)

C9_Witness ==
    /\ pc = "return"
    /\ IsExternal
    /\ IsSome(output)
    /\ Unwrap(output).code = None
    /\ Logged(MsgExitCode(-1))
    /\ errs = {}
    /\ fs[entry.output_file] = Some(Stdout)
    /\ ~Exists(fs, name)

\* C10: no error kind aborts the run: every error met is logged with its
\* diagnostic, and every call of run returns, so the scheduler, calling run
\* once per entry, eventually has completed every entry of the manifest,
\* whichever entries fail.
C10_NoErrorAbortsTheRun ==
    /\ [](\A k \in errs : Logged(Diag(k)))
    /\ <>(pc = "idle" /\ idx = NumEntries)

C10_Witness ==
    /\ pc = "idle"
    /\ idx = NumEntries
    /\ failed = NumEntries

\* C11: a failed deletion of the staged temp file is not fatal and does not
\* suppress the entry's success: when the process ran and its output was
\* written but the deletion failed, output_file holds exactly the captured
\* standard output, the failure is logged, and the entry is still reported
\* as saved and completed and returns like any other.
C11_CleanupFailureIsNotFatal ==
    (IsExternal /\ "CleanupFailed" \in errs) =>
        /\ pc = "return"
        /\ IsSome(output)
        /\ Logged(MsgCleanupFailed)
        /\ Logged(MsgSaved)
        /\ Logged(MsgCompleted)
        /\ "OutputWriteFailed" \notin errs => (errs = {"CleanupFailed"} /\ fs[entry.output_file] = Some(Stdout))

C11_Witness ==
    /\ pc = "return"
    /\ IsExternal
    /\ errs = {"CleanupFailed"}
    /\ Stdout # <<>>
    /\ fs[entry.output_file] = Some(Stdout)
    /\ Exists(fs, name)
    /\ Logged(MsgCompleted)

FullySucceeded ==
    /\ IsSome(output)
    /\ fs[entry.output_file] = Some(Stdout)
    /\ IsExternal => ~Exists(fs, name)

SkippedWithDiagnostic ==
    /\ errs # {}
    /\ \A k \in errs : Logged(Diag(k))
    /\ ~Logged(MsgSaved)
    /\ ~Logged(MsgCompleted)
    /\ fs[entry.output_file] = pre[entry.output_file]

\* C12: every execution of an entry by run ends in one of two outcomes: it
\* fully succeeded (the process ran, output_file holds its standard output
\* and, for External, no staged file remains) or it was skipped with a
\* diagnostic (logged as failed, not reported as saved or completed, nothing
\* written to output_file).
C12_SucceededOrSkipped ==
    (pc = "return" /\ (IsExternal \/ IsSystem)) => (FullySucceeded \/ SkippedWithDiagnostic)

\* C18: run logs 'The output has been saved to' and 'Execution completed'
\* for an entry only if the write of the captured output succeeded.
C18_SavedOnlyIfWritten ==
    ((IsExternal \/ IsSystem) /\ (Logged(MsgSaved) \/ Logged(MsgCompleted))) => "OutputWriteFailed" \notin errs

\* C15: entries never overlap: run returns only after its child process has
\* terminated and the write of output_file has finished or failed, so at
\* most one child process exists at any time, and none between two entries.
C15_EntriesNeverOverlap ==
    /\ live <= 1
    /\ pc \in {"idle", "return"} => live = 0
    /\ (pc = "return" /\ IsSome(output)) => (Logged(MsgSaveOutputFailed) \/ fs[entry.output_file] = Some(Stdout))

\* C14: idempotence.  At the end of each of the two runs of the same manifest no
\* staged file remains, and at the end of the second run every output file holds
\* what it held at the end of the first run.
RunEnded == pc = "idle" /\ idx = ManifestLen

OutputsIdempotent ==
    (mode = "replay" /\ RunEnded) => \A o \in OutputFiles : fs[o] = Unwrap(snap)[o]

NoResidualTempFiles ==
    (mode \in {"record", "replay"} /\ RunEnded) => \A p \in StagedPaths : ~Exists(fs, p)

C14_Idempotence == OutputsIdempotent /\ NoResidualTempFiles

Resolved == IsSome(bin_result)

ResourceKey == <<resource_type, bin_name>>

\* A step of the embedded-resource lookup fails: the module handle is null, the
\* resource is absent, loading or locking fails, or the size is zero.
LookupStepFailed ==
    /\ bin_name \notin StaticTable
    /\ \/ os.fail = "GetModuleHandleA"
       \/ bin_name \notin NamesWithNul /\ (ResourceKey \notin os.resources \/ os.fail # "none")

FallbackFailureIsNotFound ==
    (Resolved /\ LookupStepFailed) => (~Unwrap(bin_result).ok /\ Unwrap(bin_result).msg = NotFound(bin_name).msg)

\* C13: when a step of the embedded-resource lookup fails, resolving the name
\* yields NotFound and the error returned carries the OS error of the failing step.
C13_NotFoundKeepsOsError ==
    (Resolved /\ LookupStepFailed) =>
        Unwrap(bin_result) = [NotFound(bin_name) EXCEPT !.source = Some([kind |-> "Os", code |-> os.errno])]

\* C17: a name of the static table resolves to its compiled-in bytes and no
\* resource call is made; the resource lookup is made exactly for the names
\* absent from the table; a name found in neither tier resolves to NotFound.
C17_TiersInOrder ==
    Resolved =>
        /\ bin_name \in StaticTable => (Unwrap(bin_result) = OkBytes(StaticBytes(bin_name)) /\ calls = <<>>)
        /\ bin_name \notin StaticTable => (calls # <<>> /\ Head(calls) = "GetModuleHandleA")
        /\ (bin_name \notin StaticTable /\ ResourceKey \notin os.resources) => Unwrap(bin_result) = NotFound(bin_name)
        /\ (bin_name \notin StaticTable \cup NamesWithNul /\ ResourceKey \in os.resources /\ os.fail = "none") =>
               Unwrap(bin_result) = OkBytes(ResourceData(ResourceKey))

C17_Witness ==
    /\ Resolved
    /\ bin_name = "handle.exe"
    /\ ResourceKey \in os.resources
    /\ os.fail = "none"
    /\ Unwrap(bin_result) = OkBytes(StaticBytes("handle.exe"))
    /\ calls = <<>>

\* Every token replaced at once by its value, in one pass over the template.
RECURSIVE Expand(_, _, _)
Expand(t, h, dt) ==
    IF t = <<>> THEN <<>>
    ELSE IF Len(t) >= 3 /\ SubSeq(t, 1, 3) = Token("hostname") THEN h \o Expand(SubSeq(t, 4, Len(t)), h, dt)
    ELSE IF Len(t) >= 3 /\ SubSeq(t, 1, 3) = Token("datetime") THEN dt \o Expand(SubSeq(t, 4, Len(t)), h, dt)
    ELSE <<Head(t)>> \o Expand(Tail(t), h, dt)

HostOrMachine == IF IsSome(hostname) THEN Unwrap(hostname) ELSE <<"machine">>

\* C16: the result is the template with every {{hostname}} and {{datetime}}
\* replaced by the host name and the timestamp, and every other part unchanged.
C16_EveryTokenReplaced ==
    IsSome(expanded) => Unwrap(expanded) = Expand(config_output_filename, HostOrMachine, datetime)

HostNameIsPlain == HostOrMachine # <<"datetime">>

C16_PlainHostName == (IsSome(expanded) /\ HostNameIsPlain) => Unwrap(expanded) = Expand(config_output_filename, HostOrMachine, datetime)

====
